---- MODULE Spec2Model ----
(***************************************************************************)
(* Streaming speech recognition of alexzhu0/AI_toy:                        *)
(* src/app/core/speech.py, SpeechProcessor.speech_to_text and the two      *)
(* coroutines it drives, _send_audio_frames (run inline by the owning      *)
(* call) and _handle_websocket_messages (the receive task), against a      *)
(* remote server that may send any message, or drop the connection, at     *)
(* any moment.                                                             *)
(*                                                                         *)
(* Time is counted in pacing intervals: one tick is the 0.04 s the sender  *)
(* sleeps after a frame.  Strings are sequences of characters.             *)
(***************************************************************************)
EXTENDS Integers, Sequences, FiniteSets, TLC

(* ----------------------------- bounds ---------------------------------- *)

\* Largest number of frames of one attempt.
MaxFrames == 3
\* Largest number of messages the server sends in one attempt.
MaxMsgs == 2
\* The 10.0 s of asyncio.wait_for (speech.py:440), scaled to pacing ticks
\* (250 in the program) so that a frame list can outlast it.
TimeoutTicks == 1
\* Bounds of the inputs of _extract_text_from_response.
MaxGroups == 2
MaxCands == 2
MaxSc == 1

\* asyncio.sleep(0.04) after every frame: one tick.
PacingTicks == 1

\* Longest signal handed to _prepare_audio_frames on its own.
MaxSignal == 7

\* self.CHUNK_SIZE (1280 samples), scaled.
ChunkSize == 3

\* self.MAX_AUDIO_LENGTH (60 s, 750 frames), scaled, in frames.
MaxChunks == 2

\* The threshold 1e-6 of the mean power, as the number of samples per unit
\* of energy (10^6, a little above the 960000 samples of 60 s), scaled.
PowerFloor == 7

\* The longest buffer a caller hands over, in samples.
MaxRawSamples == 7

\* The last reading of the clock, in ticks.
MaxClock == 5

\* How many times process_text is called.
MaxCalls == 2

\* The largest limit get_recent_history is called with.
MaxLimit == 2

\* The WebSocket objects the ConnectionManager is called with.
MaxSockets == 2

\* How far time.time() advances while the manager is watched.
MaxTime == 2

\* The timeout of cleanup_inactive_connections (120 s), scaled.
CleanTimeout == 1

\* The readings datetime.now() can give within one second (10^6), scaled.
TicksPerSecond == 2

(* ----------------------------- values ---------------------------------- *)

\* The word of the j-th candidate of a word group.  The program never looks
\* into a word, so the candidates of a group are told apart by their place.
Letters == <<"a", "b", "c", "d">>

SeqsUpTo(S, n) == UNION {[1..k -> S] : k \in 0..n}

\* The candidates {w, sc} of a word group, for a list of confidences.
Candidates(scs) == [j \in 1..Len(scs) |-> [w |-> <<Letters[j]>>, sc |-> scs[j]]]

\* A word group: "cw" may be missing from the item.
WsItems ==
    {[hasCw |-> TRUE, cw |-> Candidates(scs)] : scs \in SeqsUpTo(0..MaxSc, MaxCands)}
      \cup {[hasCw |-> FALSE, cw |-> <<>>]}

\* The "data" object of a message: "result"/"ws" may be missing.
DataObjects ==
    [hasResult : {TRUE}, ws : SeqsUpTo(WsItems, MaxGroups)]
      \cup {[hasResult |-> FALSE, ws |-> <<>>]}

RECURSIVE Flatten(_)
\* "".join(parts)
Flatten(parts) ==
    IF parts = <<>> THEN <<>> ELSE Head(parts) \o Flatten(Tail(parts))

(* ------------------- _extract_text_from_response ----------------------- *)

RECURSIVE PyMaxFrom(_, _, _)
\* max(candidates, key=lambda x: x[1]): the scan keeps the item it holds
\* unless a later one has a strictly greater key.
PyMaxFrom(cands, k, best) ==
    IF k > Len(cands) THEN best
    ELSE PyMaxFrom(cands, k + 1, IF cands[k].sc > best.sc THEN cands[k] ELSE best)

\* The mutant of PyMax: a later candidate of equal confidence replaces the
\* one held.
PyMaxLast(cands) ==
    LET RECURSIVE From(_, _)
        From(k, best) ==
            IF k > Len(cands) THEN best
            ELSE From(k + 1, IF cands[k].sc >= best.sc THEN cands[k] ELSE best)
    IN From(2, cands[1])

PyMax(cands) == PyMaxFrom(cands, 2, cands[1])

RECURSIVE ExtractFrom(_, _, _)
\* The loop over result["ws"], text being the accumulator.
ExtractFrom(ws, k, text) ==
    IF k > Len(ws) THEN text
    ELSE IF ~ws[k].hasCw THEN ExtractFrom(ws, k + 1, text)
    ELSE IF ws[k].cw = <<>> THEN ExtractFrom(ws, k + 1, text)
    ELSE ExtractFrom(ws, k + 1, text \o PyMax(ws[k].cw).w)

ExtractText(data) ==
    IF ~data.hasResult THEN <<>> ELSE ExtractFrom(data.ws, 1, <<>>)

(* ----------------------- _prepare_audio_frames ------------------------- *)

\* int16 sample values: silence, a faint sample, a loud one.
SampleValues == {0, 1, 120}

\* The values _prepare_audio_frames gives to "status", named as its comments
\* name them: a middle frame, the first frame, the last frame.
StatusMiddle == 0
StatusFirst == 1
StatusLast == 2

\* The status of the frame at sample offset i of a signal of total samples:
\* "status = 0", then "if i == 0: status = 1",
\* "elif i + CHUNK_SIZE >= len(audio_np): status = 2".
FrameStatus(i, total) ==
    IF i = 0 THEN StatusFirst
    ELSE IF i + ChunkSize >= total THEN StatusLast
    ELSE StatusMiddle

\* The mutant of PadConstant: the signal is cut to whole frames.
PadTruncate(audio) == SubSeq(audio, 1, Len(audio) - (Len(audio) % ChunkSize))

\* np.pad(audio_np, (0, padding_size), 'constant') when the length is no
\* multiple of CHUNK_SIZE.
PadConstant(audio) ==
    IF Len(audio) % ChunkSize # 0
    THEN audio \o [j \in 1..(ChunkSize - (Len(audio) % ChunkSize)) |-> 0]
    ELSE audio

\* _prepare_audio_frames(audio_np): index is the place in the list, data the
\* samples audio_np[i:i+CHUNK_SIZE] of the frame.
FramesOf(audio) ==
    LET padded == PadConstant(audio)
    IN  [k \in 1..(Len(padded) \div ChunkSize) |->
            [index |-> k,
             data |-> SubSeq(padded, (k - 1) * ChunkSize + 1, k * ChunkSize),
             status |-> FrameStatus((k - 1) * ChunkSize, Len(padded))]]

\* The frame list of a padded signal of n chunks, without the samples: what
\* the sender needs of it.
PrepareAudioFrames(n) ==
    [k \in 1..n |->
        [index |-> k,
         status |-> FrameStatus((k - 1) * ChunkSize, n * ChunkSize)]]

(* --------------------------- server messages --------------------------- *)

\* Word groups the modelled server uses: GA holds a tie (first-listed "a"
\* wins), GB's best candidate is listed second.
GA == [hasCw |-> TRUE, cw |-> Candidates(<<1, 1>>)]
GB == [hasCw |-> TRUE, cw |-> Candidates(<<0, 1>>)]

DataA == [hasResult |-> TRUE, ws |-> <<GA>>]
DataBA == [hasResult |-> TRUE, ws |-> <<GB, GA>>]
DataNone == [hasResult |-> FALSE, ws |-> <<>>]

\* A server message as the receiver reads it: json is FALSE for text that
\* json.loads rejects; code is data.get("code", -1); hasData is
\* ("data" in data); status is data["data"].get("status", 0); desc is
\* data.get('desc', ...), the server's description of an error; dict is
\* FALSE when data["data"] is no JSON object, so that its get raises.
Message(code, hasData, data, status) ==
    [json |-> TRUE, code |-> code, hasData |-> hasData, data |-> data,
     status |-> status, desc |-> "", dict |-> TRUE]

\* The same error, described by the server in two ways.
ErrorMessage == [Message(10165, FALSE, DataNone, 0) EXCEPT !.desc = "d1"]
ErrorMessageOther == [ErrorMessage EXCEPT !.desc = "d2"]
NoCodeMessage == Message(-1, TRUE, DataA, 2)
NoDataMessage == Message(0, FALSE, DataNone, 0)
BadJson == [Message(0, FALSE, DataNone, 0) EXCEPT !.json = FALSE]
\* "data" holds a string or a list: no text can be taken from it, and
\* data["data"].get raises AttributeError.
NotDictMessage == [Message(0, TRUE, DataNone, 0) EXCEPT !.dict = FALSE]

ServerMessages ==
    {ErrorMessage, ErrorMessageOther, NoCodeMessage, NoDataMessage, BadJson,
     NotDictMessage, Message(0, TRUE, DataNone, 2)}
      \cup {Message(0, TRUE, DataA, 1), Message(0, TRUE, DataA, 2),
            Message(0, TRUE, DataBA, 1)}

(* --------------------------- _process_audio ---------------------------- *)

\* The shortest signal that passes "audio_length < 0.5": 8000 samples, six
\* frames and a part of the seventh; scaled to one frame and a part.
MinSamples == ChunkSize + 2

\* The longest signal that passes "audio_length > self.MAX_AUDIO_LENGTH".
MaxSamples == MaxChunks * ChunkSize

\* self.MAX_AUDIO_SIZE of the web server (10 MiB, more than five times the
\* bytes of 60 s), scaled, in bytes: one sample more than MaxSamples.
MaxAudioBytes == 2 * MaxSamples + 2

\* The bytes of a headerless 16-bit little-endian PCM buffer.
ToBytes(sig) ==
    [i \in 1..(2 * Len(sig)) |->
        LET v == sig[(i + 1) \div 2]
            u == IF v < 0 THEN v + 65536 ELSE v
        IN  IF i % 2 = 1 THEN u % 256 ELSE u \div 256]

\* The buffers a caller may hand over: any signal of up to MaxRawSamples
\* samples, with or without one stray byte at the end.
RawBuffers ==
    {ToBytes(sig) \o tail :
        sig \in SeqsUpTo(SampleValues, MaxRawSamples), tail \in {<<>>, <<1>>}}

\* The mutant of FromBuffer: a stray last byte is kept as the low byte of one
\* more sample.
FromBufferKeepOdd(bytes) ==
    LET even == IF Len(bytes) % 2 # 0 THEN Append(bytes, 0) ELSE bytes
    IN  [k \in 1..(Len(even) \div 2) |->
            LET u == even[2 * k - 1] + 256 * even[2 * k]
            IN  IF u >= 32768 THEN u - 65536 ELSE u]

\* "if len(audio_data) % 2 != 0: audio_data = audio_data[:-1]", then
\* np.frombuffer(audio_data, dtype=np.int16).
FromBuffer(bytes) ==
    LET even == IF Len(bytes) % 2 # 0
                THEN SubSeq(bytes, 1, Len(bytes) - 1) ELSE bytes
    IN  [k \in 1..(Len(even) \div 2) |->
            LET u == even[2 * k - 1] + 256 * even[2 * k]
            IN  IF u >= 32768 THEN u - 65536 ELSE u]

Abs(v) == IF v < 0 THEN 0 - v ELSE v

\* np.all(data == 0)
AllZero(data) == \A k \in 1..Len(data) : data[k] = 0

\* np.append(data[0], data[1:] - 0.97 * data[:-1]), in hundredths of the
\* int16 unit (the division by 32768 cancels in the normalisation below).
PreEmphasis(data) ==
    [k \in 1..Len(data) |->
        IF k = 1 THEN 100 * data[1] ELSE 100 * data[k] - 97 * data[k - 1]]

\* np.max(np.abs(data))
MaxAmp(y) ==
    CHOOSE m \in {Abs(y[k]) : k \in 1..Len(y)} :
        \A k \in 1..Len(y) : Abs(y[k]) <= m

\* data[np.abs(data) < 0.01] = 0 on data / max_amp.
NoiseGate(y, m) ==
    [k \in 1..Len(y) |-> IF 100 * Abs(y[k]) < m THEN 0 ELSE y[k]]

RECURSIVE SumSq(_, _)
SumSq(y, k) == IF k = 0 THEN 0 ELSE y[k] * y[k] + SumSq(y, k - 1)

\* np.mean(data ** 2) < 1e-6 on data / max_amp.
WeakPower(z, m) == SumSq(z, Len(z)) <= (Len(z) * m * m - 1) \div PowerFloor

\* np.clip(data * 32767, -32768, 32767).astype(np.int16) on data / max_amp:
\* the cast cuts the fraction off.
Quantise(z, m) ==
    [k \in 1..Len(z) |->
        LET q == (Abs(z[k]) * 32767) \div m
        IN  IF z[k] < 0 THEN 0 - q ELSE q]

\* np.pad(data, (0, padding_size), mode='edge') when the length is no
\* multiple of CHUNK_SIZE.
PadEdge(data) ==
    IF Len(data) % ChunkSize # 0
    THEN data \o [j \in 1..(ChunkSize - (Len(data) % ChunkSize)) |->
                    data[Len(data)]]
    ELSE data

\* The mutant of ProcessAudio: the buffer is decoded and padded, nothing is
\* tested.
ProcessAudioUnchecked(bytes) ==
    [kind |-> "ok", data |-> PadEdge(FromBuffer(bytes))]

\* _process_audio(audio_data) on a headerless PCM buffer: the ValueError it
\* raises, or the signal it returns (audio_length is the length of that
\* signal, padding included, over SAMPLE_RATE).
ProcessAudio(bytes) ==
    LET data == FromBuffer(bytes)
        y == PreEmphasis(data)
        m == MaxAmp(y)
        z == NoiseGate(y, m)
    IN  IF Len(data) = 0 THEN [kind |-> "empty_audio", data |-> <<>>]
        ELSE IF AllZero(data) THEN [kind |-> "all_zero", data |-> <<>>]
        ELSE IF ~(m > 0) THEN [kind |-> "too_weak", data |-> <<>>]
        ELSE IF WeakPower(z, m) THEN [kind |-> "weak_or_noise", data |-> <<>>]
        ELSE [kind |-> "ok", data |-> PadEdge(Quantise(z, m))]

(* ------------------------------- state --------------------------------- *)

VARIABLES
    frames,      \* frames = self._prepare_audio_frames(audio_np)
    pc,          \* where speech_to_text is
    idx,         \* the sender's loop position (1-based)
    sent,        \* the frames put on the wire by ws.send, in order
    wakeAt,      \* when the sender's asyncio.sleep ends
    sendEndAt,   \* when _send_audio_frames returned (-1: it has not)
    openedAt,    \* when the connection opened (-1: it has not)
    exitKind,    \* how the async-with block was left
    ret,         \* the value speech_to_text returns
    closeCount,  \* how often the client closed the connection
    conn,        \* "none", "open", "lost" (closed by the peer), "closed"
    closeKind,   \* "ok": the iteration over ws just ends; "error": it raises
    recv,        \* the receive task: "none", "waiting", "done", "cancelled"
    inbox,       \* how many server messages the receiver has not read yet
    result,      \* recognition_result
    complete,    \* recognition_complete.is_set()
    rcvd,        \* history: the messages the receiver has handled, in order
    sentAtErr,   \* history: Len(sent) when the receiver returned on code != 0
    now,         \* the clock, in pacing ticks
    connects,    \* how often websockets.connect was called
    xin, xout, xpc, \* one call of _extract_text_from_response
    fin, fout, fpc, \* one call of _prepare_audio_frames
    audio,       \* the buffer a caller hands over: samples and a stray byte
    audioNp,     \* audio_np, the signal _process_audio returned
    urlCount,    \* how often _create_url signed an endpoint URL
    aPc, aRecv, aResult, aComplete, aRcvd, aRet,
                 \* two attempts on one SpeechProcessor, by attempt
    clock, sPc, sUrl, sReadAt, sUrlCount, sConnUrl,
                 \* the clock, and two attempts' URLs, by attempt
    gPc, gText, gResp, gHistory, gLast, gMem, gRet, gCalls,
    gStateErr, gSave,
    gLimit, gRecent,
                 \* the last call of StateManager.get_recent_history
    mActive,     \* ConnectionManager.active_connections
    mInfo,       \* ConnectionManager.connection_info, NoInfo where no key
    mNow,        \* time.time()
    kPc, kTodo, kNow,
                 \* cleanup_inactive_connections: the copy of the set still
                 \* to visit and its reading of the time
    bPc, bStart, bUsed, bSeen, bCur, bGot,
                 \* broadcast: the set and its size when the loop began, the
                 \* connections visited, the one being sent to, those reached
                 \* calls of CompanionAgent.process_text
    gHistory0, gLast0, gMem0
                 \* history: the agent's state when the call began

sessionVars ==
    <<frames, pc, idx, sent, wakeAt, sendEndAt, openedAt, exitKind, ret,
      closeCount, conn, closeKind, recv, inbox, result, complete,
      rcvd, sentAtErr, now, connects>>
extractVars == <<xin, xout, xpc>>
frameVars == <<fin, fout, fpc>>
callVars == <<audio, audioNp, urlCount>>
\* What no step of the session touches.
pairVars == <<aPc, aRecv, aResult, aComplete, aRcvd, aRet>>
signVars == <<clock, sPc, sUrl, sReadAt, sUrlCount, sConnUrl>>
agentVars ==
    <<gPc, gText, gResp, gHistory, gLast, gMem, gRet, gCalls,
      gStateErr, gSave, gHistory0, gLast0, gMem0, gLimit, gRecent>>
\* The parts of the program a recognition attempt has nothing to do with.
managerVars == <<mActive, mInfo, mNow, kPc, kTodo, kNow>>
broadcastVars == <<bPc, bStart, bUsed, bSeen, bCur, bGot>>
sideVars == <<pairVars, signVars, agentVars, managerVars, broadcastVars>>
idleVars == <<extractVars, frameVars, callVars, sideVars>>
vars == <<sessionVars, idleVars>>

mainVars ==
    <<pc, idx, sent, wakeAt, sendEndAt, openedAt, exitKind, ret, closeCount,
      connects>>
recvVars == <<recv, result, complete, rcvd, sentAtErr>>

Ret(kind) == [kind |-> kind, text |-> <<>>]

\* Nothing of the session has happened yet.
SessionIdle ==
    /\ idx = 1
    /\ sent = <<>>
    /\ wakeAt = 0
    /\ sendEndAt = -1
    /\ openedAt = -1
    /\ exitKind = "none"
    /\ ret = Ret("none")
    /\ closeCount = 0
    /\ conn = "none"
    /\ closeKind = "ok"
    /\ recv = "none"
    /\ inbox = 0
    /\ result = <<>>
    /\ complete = FALSE
    /\ rcvd = <<>>
    /\ sentAtErr = -1
    /\ now = 0
    /\ connects = 0

\* speech_to_text stands before "async with websockets.connect" with the
\* frames of an accepted signal.
SessionInit(frameCounts) ==
    /\ frames \in {PrepareAudioFrames(n) : n \in frameCounts}
    /\ pc = "connect"
    /\ SessionIdle

\* No call of _extract_text_from_response on its own.
ExtractIdle ==
    /\ xin = DataNone
    /\ xout = <<>>
    /\ xpc = "idle"

\* No call of _prepare_audio_frames on its own.
FrameIdle ==
    /\ fin = <<>>
    /\ fout = <<>>
    /\ fpc = "idle"

\* No buffer: the locals audio_data and audio_np are not in use.
NoAudio == <<>>

\* speech_to_text has come to "async with websockets.connect": the buffer
\* was accepted, the URL signed once, the frames prepared; audio_data and
\* audio_np are not read again.
Framed ==
    /\ audio = NoAudio
    /\ audioNp = <<>>
    /\ urlCount = 1

\* The two attempts of a pair, and the executor's answer when there is none.
Attempts == {1, 2}
NoResponse == [kind |-> "none", output |-> "", steps |-> FALSE]
NoReply == [sorry |-> FALSE, text |-> ""]

\* No pair of attempts is under way.
PairIdle ==
    /\ aPc = [i \in Attempts |-> "idle"]
    /\ aRecv = [i \in Attempts |-> "none"]
    /\ aResult = [i \in Attempts |-> <<>>]
    /\ aComplete = [i \in Attempts |-> FALSE]
    /\ aRcvd = [i \in Attempts |-> <<>>]
    /\ aRet = [i \in Attempts |-> Ret("none")]

\* No URL yet.
NoUrl == [authorization |-> <<>>, date |-> <<>>, host |-> ""]

\* No signer is looked at on its own.
SignIdle ==
    /\ clock = 0
    /\ sPc = [i \in Attempts |-> "idle"]
    /\ sUrl = [i \in Attempts |-> NoUrl]
    /\ sReadAt = [i \in Attempts |-> -1]
    /\ sUrlCount = [i \in Attempts |-> 0]
    /\ sConnUrl = [i \in Attempts |-> <<>>]

\* No call of process_text.
AgentIdle ==
    /\ gPc = "idle"
    /\ gText = ""
    /\ gResp = NoResponse
    /\ gHistory = <<>>
    /\ gLast = 0
    /\ gMem = <<>>
    /\ gRet = NoReply
    /\ gCalls = 0
    /\ gStateErr = FALSE
    /\ gSave = "none"
    /\ gLimit = -1
    /\ gRecent = <<>>
    /\ gHistory0 = <<>>
    /\ gLast0 = 0
    /\ gMem0 = <<>>

Sockets == 1..MaxSockets

\* connection_info has no entry for a websocket.
NoInfo == [client_id |-> <<>>, last_activity |-> -1]

\* A ConnectionManager as __init__ leaves it; nothing cleans up.
ManagerIdle ==
    /\ mActive = {}
    /\ mInfo = [w \in Sockets |-> NoInfo]
    /\ mNow = 0
    /\ kPc = "idle"
    /\ kTodo = <<>>
    /\ kNow = 0

\* No broadcast is under way.
BroadcastIdle ==
    /\ bPc = "idle"
    /\ bStart = {}
    /\ bUsed = 0
    /\ bSeen = {}
    /\ bCur = 0
    /\ bGot = {}

SideIdle ==
    PairIdle /\ SignIdle /\ AgentIdle /\ ManagerIdle /\ BroadcastIdle

Init ==
    /\ SessionInit(1..MaxFrames)
    /\ Framed
    /\ ExtractIdle
    /\ FrameIdle
    /\ SideIdle

(* ------------------- the callers of speech_to_text -------------------- *)

\* Everything but the position, the buffer and the signal.
callFrame ==
    <<frames, idx, sent, wakeAt, sendEndAt, openedAt, exitKind, closeCount,
      conn, closeKind, inbox, now, connects, recvVars, extractVars,
      frameVars, sideVars>>

\* The handler of a binary WebSocket message (web/server.py): a buffer above
\* MAX_AUDIO_SIZE or an empty one is answered with an error message, any
\* other is handed to speech_to_text.
WebsocketAudio ==
    /\ pc = "caller"
    /\ pc' = IF Len(audio) > MaxAudioBytes THEN "rejected_size"
             ELSE IF Len(audio) = 0 THEN "rejected_empty"
             ELSE "start"
    /\ UNCHANGED <<callFrame, ret, callVars>>

\* POST /upload-audio (web/server.py): a file above MAX_AUDIO_SIZE is
\* answered with status 413, any other is handed to speech_to_text.
UploadAudio ==
    /\ pc = "caller"
    /\ pc' = IF Len(audio) > MaxAudioBytes THEN "rejected_size" ELSE "start"
    /\ UNCHANGED <<callFrame, ret, callVars>>

\* The command line (cli.py) and the agent's tool (agent/tools.py) call
\* speech_to_text with the buffer as it is.
DirectCall ==
    /\ pc = "caller"
    /\ pc' = "start"
    /\ UNCHANGED <<callFrame, ret, callVars>>

(* --------------------------- speech_to_text ---------------------------- *)

\* The mutant of NextStage: the endpoint URL is signed at the top of the
\* function.
NextStageSignFirst(stage) ==
    CASE stage = "start" -> "sign"
      [] stage = "sign" -> "process"
      [] stage = "process" -> "check"
      [] stage = "check" -> "frame"
      [] stage = "frame" -> "connect"

\* The order of the statements of speech_to_text before the connection: the
\* test for an empty buffer, _process_audio, the two tests of audio_length,
\* _create_url, _prepare_audio_frames, websockets.connect.
NextStage(stage) ==
    CASE stage = "start" -> "process"
      [] stage = "process" -> "check"
      [] stage = "check" -> "sign"
      [] stage = "sign" -> "frame"
      [] stage = "frame" -> "connect"

\* "if not audio_data": the text asking for audio is returned.
NoAudioData ==
    /\ pc = "start"
    /\ audio = <<>>
    /\ pc' = "done"
    /\ ret' = Ret("no_audio")
    /\ UNCHANGED <<callFrame, callVars>>

\* The buffer is not empty.
HasAudioData ==
    /\ pc = "start"
    /\ audio # <<>>
    /\ pc' = NextStage("start")
    /\ UNCHANGED <<callFrame, ret, callVars>>

\* _process_audio raises ValueError: "return str(e)".
ProcessFails ==
    /\ pc = "process"
    /\ ProcessAudio(audio).kind # "ok"
    /\ pc' = "done"
    /\ ret' = Ret(ProcessAudio(audio).kind)
    /\ UNCHANGED <<callFrame, callVars>>

\* audio_np, audio_length = await asyncio.to_thread(self._process_audio, ...)
ProcessOk ==
    /\ pc = "process"
    /\ ProcessAudio(audio).kind = "ok"
    /\ audioNp' = ProcessAudio(audio).data
    /\ pc' = NextStage("process")
    /\ UNCHANGED <<callFrame, ret, audio, urlCount>>

\* "if audio_length < 0.5": the text asking to speak longer is returned.
TooShort ==
    /\ pc = "check"
    /\ Len(audioNp) < MinSamples
    /\ pc' = "done"
    /\ ret' = Ret("audio_too_short")
    /\ UNCHANGED <<callFrame, callVars>>

\* "if audio_length > self.MAX_AUDIO_LENGTH": the text naming the limit is
\* returned.
TooLong ==
    /\ pc = "check"
    /\ Len(audioNp) >= MinSamples
    /\ Len(audioNp) > MaxSamples
    /\ pc' = "done"
    /\ ret' = Ret("audio_too_long")
    /\ UNCHANGED <<callFrame, callVars>>

\* Both tests of audio_length pass.
DurationOk ==
    /\ pc = "check"
    /\ Len(audioNp) >= MinSamples
    /\ Len(audioNp) <= MaxSamples
    /\ pc' = NextStage("check")
    /\ UNCHANGED <<callFrame, ret, callVars>>

\* url = self._create_url()
CreateUrl ==
    /\ pc = "sign"
    /\ urlCount' = urlCount + 1
    /\ pc' = NextStage("sign")
    /\ UNCHANGED <<callFrame, ret, audio, audioNp>>

\* frames = self._prepare_audio_frames(audio_np); the sender reads the
\* place and the status of a frame.  audio_data and audio_np are not read
\* after this statement.
PrepareFrames ==
    /\ pc = "frame"
    /\ frames' = [k \in 1..Len(FramesOf(audioNp)) |->
                    [index |-> FramesOf(audioNp)[k].index,
                     status |-> FramesOf(audioNp)[k].status]]
    /\ audio' = NoAudio
    /\ audioNp' = <<>>
    /\ pc' = NextStage("frame")
    /\ UNCHANGED <<idx, sent, wakeAt, sendEndAt, openedAt, exitKind,
                   closeCount, conn, closeKind, inbox, now, connects,
                   recvVars, extractVars, frameVars, sideVars, ret,
                   urlCount>>

\* The mutant of FinalResult: any text that is not empty is returned.
FinalResultAny(res) ==
    LET final_text == Flatten(res)
    IN  IF final_text = <<>> THEN Ret("no_text")
        ELSE [kind |-> "transcript", text |-> final_text]

\* final_text = "".join(recognition_result) and the two quality checks.
FinalResult(res) ==
    LET final_text == Flatten(res)
    IN  IF final_text = <<>> THEN Ret("no_text")
        ELSE IF Len(final_text) < 2 THEN Ret("too_short")
        ELSE [kind |-> "transcript", text |-> final_text]

\* The mutant of Cancel: the finally clause does not stop the task.
CancelNothing(r) == r

\* receive_task.cancel(): a task suspended in "async for message in ws" runs
\* no further statement of its body; a finished task is left as it is.
Cancel(r) == IF r = "waiting" THEN "cancelled" ELSE r

\* The mutant of CloseCalls: an explicit ws.close() next to the one of the
\* async-with block.
CloseCallsTwice(n) == n + 2

\* Leaving "async with websockets.connect(...) as ws" closes ws once.
CloseCalls(n) == n + 1

\* The mutant of Deadline: the timer counts from the opening of the
\* connection.
DeadlineFromOpen(tOpen, tSendEnd) == tOpen + TimeoutTicks

\* asyncio.wait_for(recognition_complete.wait(), timeout=10.0) is reached,
\* and its timer started, when _send_audio_frames has returned.
Deadline(tOpen, tSendEnd) == tSendEnd + TimeoutTicks

\* The mutant of TimerFired: a wait without a timeout.
TimerNever(t, deadline) == FALSE

TimerFired(t, deadline) == t >= deadline

\* The mutant of NextFrame: the loop steps over a frame.
SkipFrame(i) == i + 2

\* for i, frame in enumerate(frames)
NextFrame(i) == i + 1

\* websockets.connect(url, ...) succeeds; the receive task is created.
Connect ==
    /\ pc = "connect"
    /\ pc' = "send"
    /\ conn' = "open"
    /\ openedAt' = now
    /\ recv' = "waiting"
    /\ connects' = connects + 1
    /\ UNCHANGED <<frames, idx, sent, wakeAt, sendEndAt, exitKind, ret,
                   closeCount, closeKind, inbox, result, complete,
                   rcvd, sentAtErr, now, idleVars>>

\* The mutant of ConnectFailure: without the inner handler the exception
\* reaches the outer one.
ConnectFailureOuter == [pc |-> "done", ret |-> Ret("error")]

\* The mutant of ConnectFailure: the handler connects again.
ConnectFailureRetry == [pc |-> "connect", ret |-> Ret("none")]

\* "except Exception as e" around the async-with block: the failure text is
\* returned, nothing is tried again.
ConnectFailure == [pc |-> "done", ret |-> Ret("service_failed")]

\* websockets.connect(url, ...) raises: no receive task, no frame.
ConnectFails ==
    /\ pc = "connect"
    /\ pc' = ConnectFailure.pc
    /\ exitKind' = "exception"
    /\ ret' = ConnectFailure.ret
    /\ connects' = connects + 1
    /\ UNCHANGED <<frames, idx, sent, wakeAt, sendEndAt, openedAt,
                   closeCount, conn, closeKind, inbox, now,
                   recvVars, idleVars>>

\* await ws.send(json.dumps(data)) of frames[idx], then the sleep begins.
SendFrame ==
    /\ pc = "send"
    /\ conn = "open"
    /\ sent' = Append(sent, frames[idx])
    /\ wakeAt' = now + PacingTicks
    /\ pc' = "sleep"
    /\ UNCHANGED <<frames, connects, idx, sendEndAt, openedAt, exitKind, ret,
                   closeCount, conn, closeKind, inbox, now,
                   recvVars, idleVars>>

\* ws.send raises on a connection the peer has closed: the exception leaves
\* the async-with block (which closes ws) past the inner try/finally.
SendRaises ==
    /\ pc = "send"
    /\ conn # "open"
    /\ pc' = "closing"
    /\ exitKind' = "exception"
    /\ closeCount' = CloseCalls(closeCount)
    /\ UNCHANGED <<frames, connects, idx, sent, wakeAt, sendEndAt, openedAt, ret,
                   conn, closeKind, inbox, now, recvVars, idleVars>>

\* The sleep is over and a frame is left: the loop goes on.
SleepEnds ==
    /\ pc = "sleep"
    /\ now >= wakeAt
    /\ NextFrame(idx) <= Len(frames)
    /\ idx' = NextFrame(idx)
    /\ pc' = "send"
    /\ UNCHANGED <<frames, connects, sent, wakeAt, sendEndAt, openedAt, exitKind, ret,
                   closeCount, conn, closeKind, inbox, now,
                   recvVars, idleVars>>

\* The sleep after the last frame is over: _send_audio_frames returns and
\* speech_to_text starts waiting for recognition_complete.
SendReturns ==
    /\ pc = "sleep"
    /\ now >= wakeAt
    /\ NextFrame(idx) > Len(frames)
    /\ idx' = NextFrame(idx)
    /\ sendEndAt' = now
    /\ pc' = "wait"
    /\ UNCHANGED <<frames, connects, sent, wakeAt, openedAt, exitKind, ret,
                   closeCount, conn, closeKind, inbox, now,
                   recvVars, idleVars>>

\* recognition_complete is set: the wait returns, finally cancels the
\* receive task, the async-with block starts closing.
WaitDone ==
    /\ pc = "wait"
    /\ complete
    /\ recv' = Cancel(recv)
    /\ pc' = "closing"
    /\ exitKind' = "normal"
    /\ closeCount' = CloseCalls(closeCount)
    /\ UNCHANGED <<frames, connects, idx, sent, wakeAt, sendEndAt, openedAt, ret,
                   conn, closeKind, inbox, result, complete, rcvd,
                   sentAtErr, now, idleVars>>

\* asyncio.TimeoutError: the timeout text is the return value, finally
\* cancels the receive task, the async-with block starts closing.
WaitTimeout ==
    /\ pc = "wait"
    /\ ~complete
    /\ TimerFired(now, Deadline(openedAt, sendEndAt))
    /\ recv' = Cancel(recv)
    /\ pc' = "closing"
    /\ exitKind' = "timeout"
    /\ closeCount' = CloseCalls(closeCount)
    /\ UNCHANGED <<frames, connects, idx, sent, wakeAt, sendEndAt, openedAt, ret,
                   conn, closeKind, inbox, result, complete, rcvd,
                   sentAtErr, now, idleVars>>

\* The mutant of CloseExit: closing a connection the server has closed
\* raises, and the inner "except Exception" takes over.
CloseExitRaises(c, kind) == IF c = "lost" THEN "exception" ELSE kind

\* How the async-with block is left once ws is closed: closing raises
\* nothing, whether the connection was still open or already lost, so the
\* block is left the way it was entered.
CloseExit(c, kind) == kind

\* The close is over and speech_to_text returns.
CloseDone ==
    /\ pc = "closing"
    /\ conn' = "closed"
    /\ pc' = "done"
    /\ ret' = CASE CloseExit(conn, exitKind) = "timeout" -> Ret("timeout")
                [] CloseExit(conn, exitKind) = "exception" -> Ret("service_failed")
                [] OTHER -> FinalResult(result)
    /\ UNCHANGED <<frames, connects, idx, sent, wakeAt, sendEndAt, openedAt, exitKind,
                   closeCount, closeKind, inbox, now, recvVars,
                   idleVars>>

(* --------------------- _handle_websocket_messages ---------------------- *)

\* The mutant of AppendText: a text equal to the last segment is dropped.
AppendTextDedup(res, text) ==
    IF text # <<>> /\ (res = <<>> \/ res[Len(res)] # text)
    THEN Append(res, text) ELSE res

\* if text: result.append(text)
AppendText(res, text) == IF text # <<>> THEN Append(res, text) ELSE res

\* The mutant of ErrorText: the server's description is put into the result.
ErrorTextDesc(m) == <<m.desc>>

\* What a message with code != 0 adds to the result: nothing; error_desc
\* goes to logger.error only.
ErrorText(m) == <<>>

\* complete.set()
SetComplete == complete' = TRUE

\* The receiver takes the next message off the connection.  What the
\* message holds is fixed here, where the program first looks at it.
Takes(m) ==
    /\ recv = "waiting"
    /\ inbox > 0
    /\ inbox' = inbox - 1
    /\ rcvd' = Append(rcvd, m)

\* The mutant of IsError: a message counts as an error only with a code
\* above zero, so one without a code is handled as a successful message.
IsErrorPositive(m) == m.code > 0

\* "code = data.get("code", -1)", "if code != 0": a message without a code
\* has the code -1 here.
IsError(m) == m.code # 0

\* The mutant of AfterMessageError: the handling of a message has no try
\* block of its own, so its exception ends the receiver in the outer
\* "except Exception", which sets recognition_complete.
AfterMessageErrorOuter == [recv |-> "done", complete |-> TRUE]

\* The two except clauses inside the loop (JSONDecodeError, Exception): the
\* exception is logged, the receiver stays in its loop and the completion
\* signal is left alone.
AfterMessageError == [recv |-> "waiting", complete |-> FALSE]

\* json.loads raises JSONDecodeError: logged, the loop goes on.
RecvBadJson ==
    \E m \in ServerMessages :
        /\ Takes(m)
        /\ ~m.json
        /\ recv' = AfterMessageError.recv
        /\ complete' = (complete \/ AfterMessageError.complete)
        /\ UNCHANGED <<frames, mainVars, conn, closeKind, result,
                       sentAtErr, now, idleVars>>

\* code == 0 and "data" in data, but data["data"] is no object: the text
\* taken from it is empty, then data["data"].get raises and the inner
\* "except Exception" logs; the loop goes on.
RecvHandlingRaises ==
    \E m \in ServerMessages :
        /\ Takes(m)
        /\ m.json
        /\ ~IsError(m)
        /\ m.hasData
        /\ ~m.dict
        /\ result' = AppendText(result, ExtractText(m.data))
        /\ recv' = AfterMessageError.recv
        /\ complete' = (complete \/ AfterMessageError.complete)
        /\ UNCHANGED <<frames, mainVars, conn, closeKind,
                       sentAtErr, now, idleVars>>

\* code != 0: complete.set() and return.
RecvError ==
    \E m \in ServerMessages :
        /\ Takes(m)
        /\ m.json
        /\ IsError(m)
        /\ SetComplete
        /\ recv' = "done"
        /\ sentAtErr' = IF sentAtErr = -1 THEN Len(sent) ELSE sentAtErr
        /\ result' = AppendText(result, ErrorText(m))
        /\ UNCHANGED <<frames, mainVars, conn, closeKind, now,
                       idleVars>>

\* code == 0 and "data" in data: the text is appended; status 2 sets
\* recognition_complete; the loop goes on.
RecvData ==
    \E m \in ServerMessages :
        /\ Takes(m)
        /\ m.json
        /\ ~IsError(m)
        /\ m.hasData
        /\ m.dict
        /\ result' = AppendText(result, ExtractText(m.data))
        /\ IF m.status = 2 THEN SetComplete
           ELSE UNCHANGED complete
        /\ UNCHANGED <<frames, mainVars, conn, closeKind, recv,
                       sentAtErr, now, idleVars>>

\* code == 0 without "data": nothing to do, the loop goes on.
RecvNoData ==
    \E m \in ServerMessages :
        /\ Takes(m)
        /\ m.json
        /\ ~IsError(m)
        /\ ~m.hasData
        /\ UNCHANGED <<frames, mainVars, conn, closeKind, recv, result,
                       complete, sentAtErr, now, idleVars>>

\* The connection is closed and nothing is left to read: the iteration over
\* ws ends and the coroutine returns.
RecvIterEnds ==
    /\ recv = "waiting"
    /\ inbox = 0
    /\ conn \in {"lost", "closed"}
    /\ closeKind = "ok"
    /\ recv' = "done"
    /\ UNCHANGED <<frames, mainVars, conn, closeKind, inbox, result,
                   complete, rcvd, sentAtErr, now, idleVars>>

\* The connection broke: the iteration raises, the outer "except Exception"
\* sets recognition_complete.
RecvRaises ==
    /\ recv = "waiting"
    /\ inbox = 0
    /\ conn \in {"lost", "closed"}
    /\ closeKind = "error"
    /\ recv' = "done"
    /\ SetComplete
    /\ UNCHANGED <<frames, mainVars, conn, closeKind, inbox, result,
                   rcvd, sentAtErr, now, idleVars>>

(* ------------------------- the remote server --------------------------- *)

\* The server sends a message while the connection is open.
ServerSend ==
    /\ conn = "open"
    /\ inbox + Len(rcvd) < MaxMsgs
    /\ inbox' = inbox + 1
    /\ UNCHANGED <<frames, mainVars, conn, closeKind, recvVars, now,
                   idleVars>>

\* The server closes the connection, or the network drops it.
ConnLost ==
    \E kind \in {"ok", "error"} :
        /\ conn = "open"
        /\ conn' = "lost"
        /\ closeKind' = kind
        /\ UNCHANGED <<frames, mainVars, inbox, recvVars, now,
                       idleVars>>

(* ------------------------------ the clock ------------------------------ *)

\* Time passes while a timer is pending: the sender's sleep, or the timeout
\* of the wait.  A timer that is due is served before the clock moves on.
Tick ==
    /\ \/ pc = "sleep" /\ now < wakeAt
       \/ pc = "wait" /\ ~complete /\ now < Deadline(openedAt, sendEndAt)
    /\ now' = now + 1
    /\ UNCHANGED <<frames, mainVars, conn, closeKind, inbox, recvVars,
                   idleVars>>

(* --------------------------- specifications ---------------------------- *)

Main ==
    \/ Connect
    \/ ConnectFails
    \/ SendFrame
    \/ SendRaises
    \/ SleepEnds
    \/ SendReturns
    \/ WaitDone
    \/ WaitTimeout
    \/ CloseDone

Receiver ==
    \/ RecvBadJson
    \/ RecvHandlingRaises
    \/ RecvError
    \/ RecvData
    \/ RecvNoData
    \/ RecvIterEnds
    \/ RecvRaises

Next ==
    \/ Connect
    \/ ConnectFails
    \/ SendFrame
    \/ SendRaises
    \/ SleepEnds
    \/ SendReturns
    \/ WaitDone
    \/ WaitTimeout
    \/ CloseDone
    \/ RecvBadJson
    \/ RecvHandlingRaises
    \/ RecvError
    \/ RecvData
    \/ RecvNoData
    \/ RecvIterEnds
    \/ RecvRaises
    \/ ServerSend
    \/ ConnLost
    \/ Tick

Spec == Init /\ [][Next]_vars

\* The event loop runs a coroutine that can go on, and its timers run.
FairSpec == Spec /\ WF_vars(Main) /\ WF_vars(Tick)

\* One call of _extract_text_from_response on any data object.
ExtractInit ==
    /\ SessionInit({1})
    /\ Framed
    /\ FrameIdle
    /\ SideIdle
    /\ xin \in DataObjects
    /\ xout = <<>>
    /\ xpc = "call"

ExtractCall ==
    /\ xpc = "call"
    /\ xout' = ExtractText(xin)
    /\ xpc' = "returned"
    /\ UNCHANGED <<sessionVars, frameVars, callVars, sideVars, xin>>

ExtractSpec == ExtractInit /\ [][ExtractCall]_vars

\* The signals of 1..MaxSignal samples.
Signals == SeqsUpTo(SampleValues, MaxSignal) \ {<<>>}

\* One call of _prepare_audio_frames on any signal.
FrameInit ==
    /\ SessionInit({1})
    /\ Framed
    /\ ExtractIdle
    /\ SideIdle
    /\ fin \in Signals
    /\ fout = <<>>
    /\ fpc = "call"

FrameCall ==
    /\ fpc = "call"
    /\ fout' = FramesOf(fin)
    /\ fpc' = "returned"
    /\ UNCHANGED <<sessionVars, extractVars, callVars, sideVars, fin>>

FrameSpec == FrameInit /\ [][FrameCall]_vars

\* A caller holds a buffer; speech_to_text has not been called.
CallInit ==
    /\ frames = <<>>
    /\ pc = "caller"
    /\ SessionIdle
    /\ audio \in RawBuffers
    /\ audioNp = <<>>
    /\ urlCount = 0
    /\ ExtractIdle
    /\ FrameIdle
    /\ SideIdle

\* One recognition attempt from the caller's buffer to the return value.
CallNext ==
    \/ WebsocketAudio
    \/ UploadAudio
    \/ DirectCall
    \/ NoAudioData
    \/ HasAudioData
    \/ ProcessFails
    \/ ProcessOk
    \/ TooShort
    \/ TooLong
    \/ DurationOk
    \/ CreateUrl
    \/ PrepareFrames
    \/ Next

CallSpec == CallInit /\ [][CallNext]_vars

(* ------------------ two attempts on one SpeechProcessor ----------------- *)

\* What the server of a pair sends: an error, a partial and a final result.
PairMessages ==
    {ErrorMessage, Message(0, TRUE, DataA, 1), Message(0, TRUE, DataBA, 2)}

\* The mutant of LocalsOf: the list and the event are kept on the processor.
LocalsShared(i) == 1

\* recognition_result = [] and recognition_complete = asyncio.Event() are
\* locals of the call; the receive task of the call is handed these two.
LocalsOf(i) == i

\* Everything but the pair.
pairFrame ==
    <<sessionVars, extractVars, frameVars, callVars, signVars, agentVars,
      managerVars, broadcastVars>>

\* "async with websockets.connect(url, ...) as ws" of attempt i, and its
\* receive task.
PairConnect(i) ==
    /\ aPc[i] = "idle"
    /\ aPc' = [aPc EXCEPT ![i] = "open"]
    /\ aRecv' = [aRecv EXCEPT ![i] = "waiting"]
    /\ UNCHANGED <<aResult, aComplete, aRcvd, aRet, pairFrame>>

\* The receive task of attempt i handles a message that came on the
\* connection of attempt i.
PairRecv(i) ==
    \E m \in PairMessages :
        /\ aPc[i] = "open"
        /\ aRecv[i] = "waiting"
        /\ Len(aRcvd[i]) < MaxMsgs
        /\ aRcvd' = [aRcvd EXCEPT ![i] = Append(@, m)]
        /\ IF IsError(m)
           THEN /\ aComplete' = [aComplete EXCEPT ![LocalsOf(i)] = TRUE]
                /\ aRecv' = [aRecv EXCEPT ![i] = "done"]
                /\ UNCHANGED aResult
           ELSE /\ aResult' = [aResult EXCEPT ![LocalsOf(i)] =
                                  AppendText(@, ExtractText(m.data))]
                /\ aComplete' = [aComplete EXCEPT ![LocalsOf(i)] =
                                    @ \/ m.status = 2]
                /\ UNCHANGED aRecv
        /\ UNCHANGED <<aPc, aRet, pairFrame>>

\* The wait of attempt i returns: the receive task is cancelled and the
\* joined text, or one of its two fallbacks, is returned.
PairReturn(i) ==
    /\ aPc[i] = "open"
    /\ aComplete[LocalsOf(i)]
    /\ aRet' = [aRet EXCEPT ![i] = FinalResult(aResult[LocalsOf(i)])]
    /\ aRecv' = [aRecv EXCEPT ![i] = Cancel(@)]
    /\ aPc' = [aPc EXCEPT ![i] = "done"]
    /\ UNCHANGED <<aResult, aComplete, aRcvd, pairFrame>>

\* The wait of attempt i times out.
PairTimeout(i) ==
    /\ aPc[i] = "open"
    /\ ~aComplete[LocalsOf(i)]
    /\ aRet' = [aRet EXCEPT ![i] = Ret("timeout")]
    /\ aRecv' = [aRecv EXCEPT ![i] = Cancel(@)]
    /\ aPc' = [aPc EXCEPT ![i] = "done"]
    /\ UNCHANGED <<aResult, aComplete, aRcvd, pairFrame>>

PairInit ==
    /\ SessionInit({1})
    /\ Framed
    /\ ExtractIdle
    /\ FrameIdle
    /\ SideIdle

PairNext ==
    \E i \in Attempts :
        \/ PairConnect(i)
        \/ PairRecv(i)
        \/ PairReturn(i)
        \/ PairTimeout(i)

PairSpec == PairInit /\ [][PairNext]_vars

(* --------------------- CompanionAgent.process_text --------------------- *)

\* What the user says.
Texts == {"t1", "t2"}

\* What agent_executor.ainvoke can return: a dict with "output" (with or
\* without intermediate steps of tool calls), a dict without "output" (""
\* stands for None), or something that is no dict.
Responses ==
    [kind : {"dict"}, output : {"o1", "o2"}, steps : BOOLEAN]
        \cup {[kind |-> "dict", output |-> "", steps |-> FALSE],
               [kind |-> "other", output |-> "", steps |-> FALSE]}

\* The three fixed replies, each beginning with the word of apology, and the
\* reply that hands on the executor's output.
Sorry(which) == [sorry |-> TRUE, text |-> which]
Output(resp) == [sorry |-> FALSE, text |-> resp.output]

\* StateManager.add_to_history(role, content): one entry at the end.
AddToHistory(hist, role, content) ==
    Append(hist, [role |-> role, content |-> content])

\* The mutant of RecordedBefore: the user's turn is recorded before the
\* executor runs.
RecordedBeforeUser(hist, text) == AddToHistory(hist, "user", text)

\* The history when agent_executor.ainvoke is called: process_text has only
\* built the prompt.
RecordedBefore(hist, text) == hist

\* json.dumps(metadata) in Memory.add_memory: the steps of tool calls are
\* objects json cannot encode, an empty list of steps it can.
Serialisable(resp) == ~resp.steps

\* Memory.add_memory("conversation", text, metadata): one row more, or, when
\* json.dumps raises, the exception is logged and no row is written.  The
\* database itself is taken to work.
AddMemory(mem, text, resp) ==
    IF Serialisable(resp)
    THEN Append(mem, [type |-> "conversation", content |-> text,
                      response |-> resp.output])
    ELSE mem

\* The mutant of AfterStateError: the state update stands in the outer try
\* block only, so its exception ends the call with the third apology.
AfterStateErrorOuter == [pc |-> "done", ret |-> Sorry("tired")]

\* "except Exception as e" of the state update: nothing is returned yet, the
\* memory save comes next.
AfterStateError == [pc |-> "save", ret |-> NoReply]

\* "return self.conversation_state.conversation_history[-limit:]": Python's
\* slice from the place -limit to the end; -0 is the place 0, the beginning,
\* and a place before the beginning is taken as the beginning.
GetRecentHistory(hist, limit) ==
    IF limit = 0 \/ limit >= Len(hist) THEN hist
    ELSE SubSeq(hist, Len(hist) - limit + 1, Len(hist))

recentVars == <<gLimit, gRecent>>

\* Everything but the agent.
agentFrame ==
    <<sessionVars, extractVars, frameVars, callVars, pairVars, signVars,
      managerVars, broadcastVars>>

\* process_text(text) is called and builds the prompt.
AgentCall ==
    \E text \in Texts :
        /\ gPc \in {"idle", "done"}
        /\ gCalls < MaxCalls
        /\ gCalls' = gCalls + 1
        /\ gText' = text
        /\ gResp' = NoResponse
        /\ gRet' = NoReply
        /\ gHistory0' = gHistory
        /\ gLast0' = gLast
        /\ gMem0' = gMem
        /\ gHistory' = RecordedBefore(gHistory, text)
        /\ gStateErr' = FALSE
        /\ gSave' = "none"
        /\ gPc' = "invoke"
        /\ UNCHANGED <<gLast, gMem, recentVars, agentFrame>>

\* agent_executor.ainvoke raises: the first apology is returned.
AgentInvokeRaises ==
    /\ gPc = "invoke"
    /\ gRet' = Sorry("problem")
    /\ gPc' = "done"
    /\ UNCHANGED <<gText, gResp, gHistory, gLast, gMem, gCalls, gStateErr,
                   gSave, gHistory0, gLast0, gMem0, recentVars,
                   agentFrame>>

\* agent_executor.ainvoke returns.
AgentInvokeReturns ==
    \E resp \in Responses :
        /\ gPc = "invoke"
        /\ gResp' = resp
        /\ gPc' = "check"
        /\ UNCHANGED <<gText, gHistory, gLast, gMem, gRet, gCalls, gStateErr,
                       gSave, gHistory0, gLast0, gMem0, recentVars,
                   agentFrame>>

\* The response is no dict or has no output: the second apology.
AgentBadResponse ==
    /\ gPc = "check"
    /\ gResp.kind # "dict" \/ gResp.output = ""
    /\ gRet' = Sorry("not understood")
    /\ gPc' = "done"
    /\ UNCHANGED <<gText, gResp, gHistory, gLast, gMem, gCalls, gStateErr,
                   gSave, gHistory0, gLast0, gMem0, recentVars,
                   agentFrame>>

\* update_last_interaction(), add_to_history("user", text),
\* add_to_history("assistant", result).
AgentUpdateState ==
    /\ gPc = "check"
    /\ gResp.kind = "dict"
    /\ gResp.output # ""
    /\ gLast' = gLast + 1
    /\ gHistory' = AddToHistory(AddToHistory(gHistory, "user", gText),
                                "assistant", gResp.output)
    /\ gPc' = "save"
    /\ UNCHANGED <<gText, gResp, gMem, gRet, gCalls, gStateErr, gSave,
                   gHistory0, gLast0, gMem0, recentVars,
                   agentFrame>>

\* One of the three statements of the state update raises after k of them
\* have run: "except Exception" prints and the function goes on.
AgentUpdateStateRaises ==
    \E k \in 0..2 :
        /\ gPc = "check"
        /\ gResp.kind = "dict"
        /\ gResp.output # ""
        /\ gLast' = IF k >= 1 THEN gLast + 1 ELSE gLast
        /\ gHistory' = IF k >= 2 THEN AddToHistory(gHistory, "user", gText)
                       ELSE gHistory
        /\ gStateErr' = TRUE
        /\ gPc' = AfterStateError.pc
        /\ gRet' = AfterStateError.ret
        /\ UNCHANGED <<gText, gResp, gMem, gCalls, gSave,
                       gHistory0, gLast0, gMem0, recentVars,
                   agentFrame>>

\* self.memory.add_memory(...), then "return result".
AgentSaveMemory ==
    /\ gPc = "save"
    /\ gMem' = AddMemory(gMem, gText, gResp)
    /\ gSave' = "returned"
    /\ gRet' = Output(gResp)
    /\ gPc' = "done"
    /\ UNCHANGED <<gText, gResp, gHistory, gLast, gCalls, gStateErr,
                   gHistory0, gLast0, gMem0, recentVars,
                   agentFrame>>

\* The call of self.memory.add_memory raises: "except Exception" prints, then
\* "return result".
AgentSaveMemoryRaises ==
    /\ gPc = "save"
    /\ gSave' = "raised"
    /\ gRet' = Output(gResp)
    /\ gPc' = "done"
    /\ UNCHANGED <<gText, gResp, gHistory, gLast, gMem, gCalls, gStateErr,
                   gHistory0, gLast0, gMem0, recentVars,
                   agentFrame>>

\* StateManager.get_recent_history(limit) is called, at any time: it has no
\* await.
AgentRecentHistory ==
    \E limit \in 0..MaxLimit :
        /\ gLimit' = limit
        /\ gRecent' = GetRecentHistory(gHistory, limit)
        /\ UNCHANGED <<gPc, gText, gResp, gHistory, gLast, gMem, gRet, gCalls,
                       gStateErr, gSave, gHistory0, gLast0, gMem0,
                       agentFrame>>

AgentInit ==
    /\ SessionInit({1})
    /\ Framed
    /\ ExtractIdle
    /\ FrameIdle
    /\ SideIdle

AgentNext ==
    \/ AgentCall
    \/ AgentInvokeRaises
    \/ AgentInvokeReturns
    \/ AgentBadResponse
    \/ AgentUpdateState
    \/ AgentUpdateStateRaises
    \/ AgentSaveMemory
    \/ AgentSaveMemoryRaises
    \/ AgentRecentHistory

AgentSpec == AgentInit /\ [][AgentNext]_vars

(* ------------------------- ConnectionManager --------------------------- *)

\* connect was called without a client_id.
NoClientId == <<>>

\* The ids connect is called with: none, or one the caller chose.
ClientIds == {NoClientId, <<"given", 0>>}

\* client_id or f"client_{len(self.active_connections)}"
ClientId(cid, n) == IF cid # NoClientId THEN cid ELSE <<"client_", n>>

\* The keys of connection_info.
Keys(info) == {w \in Sockets : info[w] # NoInfo}

\* The mutant of Disconnect: the entry of connection_info is left behind.
DisconnectKeepInfo(st, w) ==
    IF w \in st.active THEN [st EXCEPT !.active = @ \ {w}] ELSE st

\* disconnect(websocket) on the two collections: a websocket that is active
\* is taken out of both, any other call does nothing.
Disconnect(st, w) ==
    IF w \in st.active
    THEN [active |-> st.active \ {w},
          info |-> [st.info EXCEPT ![w] = NoInfo]]
    ELSE st

Manager == [active |-> mActive, info |-> mInfo]

\* Everything but the manager.
managerFrame ==
    <<sessionVars, extractVars, frameVars, callVars, pairVars, signVars,
      agentVars>>

\* connect(websocket, client_id) after websocket.accept() has returned; when
\* accept raises, as it does for a websocket accepted before, nothing is
\* changed.  connected_at is never read.
ManagerConnect ==
    \E w \in Sockets, cid \in ClientIds :
        /\ w \notin mActive
        /\ mActive' = mActive \cup {w}
        /\ mInfo' = [mInfo EXCEPT ![w] =
                        [client_id |-> ClientId(cid, Cardinality(mActive')),
                         last_activity |-> mNow]]
        /\ UNCHANGED <<mNow, kPc, kTodo, kNow, broadcastVars, managerFrame>>

\* disconnect(websocket), by the handler of the websocket or its heartbeat.
ManagerDisconnect ==
    \E w \in Sockets :
        /\ mActive' = Disconnect(Manager, w).active
        /\ mInfo' = Disconnect(Manager, w).info
        /\ UNCHANGED <<mNow, kPc, kTodo, kNow, broadcastVars, managerFrame>>

\* update_activity(websocket)
ManagerUpdateActivity ==
    \E w \in Sockets :
        /\ w \in Keys(mInfo)
        /\ mInfo' = [mInfo EXCEPT ![w].last_activity = mNow]
        /\ UNCHANGED <<mActive, mNow, kPc, kTodo, kNow, broadcastVars,
                       managerFrame>>

\* Time passes.
ManagerTick ==
    /\ mNow < MaxTime
    /\ mNow' = mNow + 1
    /\ UNCHANGED <<mActive, mInfo, kPc, kTodo, kNow, broadcastVars,
                   managerFrame>>

\* "now - last_activity > timeout", last_activity being 0 for a websocket
\* without an entry: time.time() is far above any timeout.
Inactive(info, w, t) ==
    IF info[w] = NoInfo THEN TRUE
    ELSE t - info[w].last_activity > CleanTimeout

\* The iterations of the cleanup loop that close nothing run without an
\* await: what is left of the list when the loop next stands at ws.close().
RECURSIVE SkipActive(_, _, _)
SkipActive(todo, info, t) ==
    IF todo = <<>> THEN <<>>
    ELSE IF Inactive(info, Head(todo), t) THEN todo
    ELSE SkipActive(Tail(todo), info, t)

\* list(self.active_connections): the set in some order.
Orders(set) ==
    {o \in [1..Cardinality(set) -> set] :
        \A i, j \in 1..Cardinality(set) : i # j => o[i] # o[j]}

\* cleanup_inactive_connections(timeout) reads the time, copies the set and
\* runs up to its first "await ws.close(...)", or to its end.
ManagerCleanupStart ==
    \E order \in Orders(mActive) :
        /\ kPc = "idle"
        /\ kTodo' = SkipActive(order, mInfo, mNow)
        /\ kPc' = IF kTodo' = <<>> THEN "idle" ELSE "closing"
        /\ kNow' = IF kTodo' = <<>> THEN kNow ELSE mNow
        /\ UNCHANGED <<mActive, mInfo, mNow, broadcastVars, managerFrame>>

\* ws.close(...) has returned or raised (the bare except passes), then
\* self.disconnect(ws), and the loop runs on to its next close or its end.
ManagerCleanupClosed ==
    /\ kPc = "closing"
    /\ mActive' = Disconnect(Manager, Head(kTodo)).active
    /\ mInfo' = Disconnect(Manager, Head(kTodo)).info
    /\ kTodo' = SkipActive(Tail(kTodo), mInfo', kNow)
    /\ kPc' = IF kTodo' = <<>> THEN "idle" ELSE "closing"
    /\ UNCHANGED <<mNow, kNow, broadcastVars, managerFrame>>

ManagerInit ==
    /\ SessionInit({1})
    /\ Framed
    /\ ExtractIdle
    /\ FrameIdle
    /\ SideIdle

ManagerNext ==
    \/ ManagerConnect
    \/ ManagerDisconnect
    \/ ManagerUpdateActivity
    \/ ManagerTick
    \/ ManagerCleanupStart
    \/ ManagerCleanupClosed

\* A ConnectionManager under any calls of connect, disconnect,
\* update_activity and cleanup_inactive_connections.
ManagerSpec == ManagerInit /\ [][ManagerNext]_vars

(* ------------------------------ broadcast ------------------------------ *)

\* The for statement asks the iterator of self.active_connections for the
\* next connection.  The iterator noted the size of the set when the loop
\* began: with another size it raises RuntimeError, which nothing in
\* broadcast catches.  Over an unchanged set every member comes once, then
\* the loop ends; over a set of the same size with other members the
\* iterator may give any member or end.
IterStep(active) ==
    IF Cardinality(active) # bUsed'
    THEN bPc' = "raised" /\ UNCHANGED <<bSeen, bCur>>
    ELSE \/ /\ active = bStart' => active \ bSeen = {}
            /\ bPc' = "done"
            /\ UNCHANGED <<bSeen, bCur>>
         \/ \E w \in IF active = bStart' THEN active \ bSeen ELSE active :
                /\ bCur' = w
                /\ bSeen' = bSeen \cup {w}
                /\ bPc' = "send"

\* broadcast(message) is called and runs to its first "await
\* connection.send_text(message)", or to its end.
BroadcastStart ==
    /\ bPc = "idle"
    /\ bStart' = mActive
    /\ bUsed' = Cardinality(mActive)
    /\ IterStep(mActive)
    /\ UNCHANGED <<bGot, managerVars, managerFrame>>

\* connection.send_text(message) returns, and the loop goes on.
BroadcastSent ==
    /\ bPc = "send"
    /\ bGot' = bGot \cup {bCur}
    /\ UNCHANGED <<bStart, bUsed>>
    /\ IterStep(mActive)
    /\ UNCHANGED <<managerVars, managerFrame>>

\* connection.send_text(message) raises: logged, self.disconnect(connection),
\* and the loop goes on.
BroadcastSendFails ==
    /\ bPc = "send"
    /\ mActive' = Disconnect(Manager, bCur).active
    /\ mInfo' = Disconnect(Manager, bCur).info
    /\ UNCHANGED <<bStart, bUsed>>
    /\ IterStep(mActive')
    /\ UNCHANGED <<bGot, mNow, kPc, kTodo, kNow, managerFrame>>

BroadcastNext ==
    \/ ManagerConnect
    \/ ManagerDisconnect
    \/ BroadcastStart
    \/ BroadcastSent
    \/ BroadcastSendFails

\* One broadcast on a ConnectionManager whose websockets connect and
\* disconnect.
BroadcastSpec == ManagerInit /\ [][BroadcastNext]_vars

(* ----------------------------- _create_url ----------------------------- *)

\* mktime(now.timetuple()): the time tuple has no place for the fraction of
\* a second.
EpochSeconds(t) == t \div TicksPerSecond

\* The mutant of FormatDate: the last place of the date is left out.
FormatDateCoarse(sec) == <<sec \div 10, 0>>

\* format_date_time(seconds): a text with a place for every second, here the
\* two decimal digits of the seconds.
FormatDate(sec) == <<sec \div 10, sec % 10>>

\* The three lines over which the signature is computed.
SignatureOrigin(date) ==
    <<"host: ws-api.xfyun.cn", date, "GET /v2/iat HTTP/1.1">>

\* hmac.new(secret, text, sha256), base64: taken as injective in the text.
Hmac(secret, text) == <<secret, text>>

\* _create_url() when datetime.now() reads t: the query of the URL.
CreateUrlAt(t) ==
    LET date == FormatDate(EpochSeconds(t))
    IN  [authorization |-> <<"api_key", Hmac("api_secret", SignatureOrigin(date))>>,
         date |-> date,
         host |-> "ws-api.xfyun.cn"]

\* The mutant of UrlToConnect: the first URL signed is kept on the
\* processor and used again.
UrlFirstKept(i, urls) == IF urls[1] # NoUrl THEN urls[1] ELSE urls[i]

\* websockets.connect(url, ...): url is the local the call has just set.
UrlToConnect(i, urls) == urls[i]

\* Everything but the signer's part.
signFrame ==
    <<sessionVars, extractVars, frameVars, callVars, pairVars, agentVars,
      managerVars, broadcastVars>>

\* Time passes.
SignTick ==
    /\ clock < MaxClock
    /\ clock' = clock + 1
    /\ UNCHANGED <<sPc, sUrl, sReadAt, sUrlCount, sConnUrl, signFrame>>

\* url = self._create_url() of attempt i.
SignCreateUrl(i) ==
    /\ sPc[i] = "idle"
    /\ sReadAt' = [sReadAt EXCEPT ![i] = clock]
    /\ sUrl' = [sUrl EXCEPT ![i] = CreateUrlAt(clock)]
    /\ sUrlCount' = [sUrlCount EXCEPT ![i] = @ + 1]
    /\ sPc' = [sPc EXCEPT ![i] = "signed"]
    /\ UNCHANGED <<clock, sConnUrl, signFrame>>

\* websockets.connect(url, ...) of attempt i.
SignConnect(i) ==
    /\ sPc[i] = "signed"
    /\ sConnUrl' = [sConnUrl EXCEPT ![i] = Append(@, UrlToConnect(i, sUrl))]
    /\ sPc' = [sPc EXCEPT ![i] = "connected"]
    /\ UNCHANGED <<clock, sUrl, sReadAt, sUrlCount, signFrame>>

SignInit ==
    /\ SessionInit({1})
    /\ Framed
    /\ ExtractIdle
    /\ FrameIdle
    /\ SideIdle

SignNext ==
    \/ SignTick
    \/ \E i \in Attempts : SignCreateUrl(i) \/ SignConnect(i)

SignSpec == SignInit /\ [][SignNext]_vars

(* ------------------------------- claims -------------------------------- *)

\* The three terminal outcomes; the two quality fallbacks and the service
\* failure are errors.
Outcome(r) ==
    CASE r.kind = "transcript" -> "success"
      [] r.kind = "timeout" -> "timeout"
      [] r.kind \in {"no_text", "too_short", "service_failed"} -> "error"
      [] OTHER -> "none"

\* The candidate a word group contributes: the first-listed one among those
\* of maximum confidence.
BestIndex(cw) ==
    CHOOSE i \in 1..Len(cw) :
        /\ \A j \in 1..Len(cw) : cw[j].sc <= cw[i].sc
        /\ \A j \in 1..(i - 1) : cw[j].sc < cw[i].sc

GroupText(g) == IF g.hasCw /\ g.cw # <<>> THEN g.cw[BestIndex(g.cw)].w ELSE <<>>

BestText(data) ==
    IF data.hasResult
    THEN Flatten([k \in 1..Len(data.ws) |-> GroupText(data.ws[k])])
    ELSE <<>>

\* The text of a handled message: that of a successful message with data.
SegmentText(m) ==
    IF m.json /\ m.code = 0 /\ m.hasData THEN BestText(m.data) ELSE <<>>

ReceiverStopped == recv \in {"done", "cancelled"}

\* C1: once a connection was opened, when speech_to_text has returned the
\* connection has been closed exactly once and the receive task is no longer
\* running (the sender runs inside the call and has ended with it).
C1_ClosedOnceTasksStopped ==
    (pc = "done" /\ openedAt # -1) => (closeCount = 1 /\ ReceiverStopped)

\* C2: when the first message the receiver handles carries code != 0, the
\* call ends with the service error, no frame is sent after the receiver
\* handled that message, and the connection is closed exactly once.
C2_ErrorFirstStopsSender ==
    (pc = "done" /\ rcvd # <<>> /\ rcvd[1].json /\ rcvd[1].code # 0)
        => /\ ret.kind = "service_failed"
           /\ Len(sent) = sentAtErr
           /\ closeCount = 1

C4_TimeoutReleases ==
    (pc = "done" /\ sendEndAt # -1 /\ ~complete)
        => /\ ret = Ret("timeout")
           /\ now >= sendEndAt + TimeoutTicks
           /\ ReceiverStopped
           /\ closeCount = 1
           /\ conn = "closed"

\* The timeout was returned with the receive task cancelled while it waited.
C4_Witness ==
    /\ pc = "done"
    /\ ret.kind = "timeout"
    /\ recv = "cancelled"
    /\ closeCount = 1

\* C5: once the timeout was raised in speech_to_text, no frame is sent, no
\* message is handled and the transcript does not change.
C5_NothingAfterDeadline ==
    [][exitKind = "timeout" =>
          (sent' = sent /\ rcvd' = rcvd /\ result' = result)]_vars

\* The call returned the timeout while a server message was still unread.
C5_Witness ==
    /\ pc = "done"
    /\ exitKind = "timeout"
    /\ inbox > 0

\* C6: when the receiver handled a message with a non-zero code, the call
\* returns the service error.
C6_ErrorCodeIsServiceError ==
    (pc = "done" /\ sentAtErr # -1) => ret.kind = "service_failed"

\* C7: every attempt returns, with one of the three outcomes, and what it
\* returned does not change afterwards.
C7_ReturnsOneOutcome ==
    /\ <>(pc = "done")
    /\ [](pc = "done" => Outcome(ret) \in {"success", "error", "timeout"})
    /\ [][pc = "done" => (pc' = "done" /\ ret' = ret)]_vars

\* An attempt returned a transcript after the server had closed.
C7_Witness ==
    /\ pc = "done"
    /\ Outcome(ret) = "success"
    /\ closeKind = "error"

\* C8: a returned transcript is the concatenation, in the order of handling,
\* of the best-candidate text of every successful message handled.
C8_TranscriptIsConcatenation ==
    (pc = "done" /\ ret.kind = "transcript")
        => ret.text = Flatten([k \in 1..Len(rcvd) |-> SegmentText(rcvd[k])])

\* A transcript was returned in which a segment is followed by an equal one.
C8_Witness ==
    /\ pc = "done"
    /\ ret.kind = "transcript"
    /\ Len(result) = 2
    /\ result[1] = result[2]
    /\ rcvd[Len(rcvd)].status = 2

\* C9: the text of a message is the concatenation, in word-group order, of
\* the first-listed candidate of maximum confidence of every word group.
C9_BestCandidatePerGroup ==
    xpc = "returned" => xout = BestText(xin)

\* The call returned on a message whose first word group has its best
\* candidate listed second and whose second word group holds a tie between
\* two different words.
C9_Witness ==
    /\ xpc = "returned"
    /\ xin.hasResult
    /\ Len(xin.ws) = 2
    /\ xin.ws[2].hasCw
    /\ Len(xin.ws[2].cw) = 2
    /\ xin.ws[2].cw[1].sc = xin.ws[2].cw[2].sc
    /\ xin.ws[2].cw[1].w # xin.ws[2].cw[2].w
    /\ xin.ws[1].hasCw
    /\ Len(xin.ws[1].cw) = 2
    /\ xin.ws[1].cw[1].sc < xin.ws[1].cw[2].sc

\* C10: what the sender has put on the wire is always the frame list up to
\* some index, in index order, and all of it once the sender has returned.
C10_FramesInOrder ==
    /\ Len(sent) <= Len(frames)
    /\ \A k \in 1..Len(sent) : sent[k] = frames[k] /\ sent[k].index = k
    /\ sendEndAt # -1 => sent = frames

\* The sender has returned after the longest frame list while the receiver
\* has handled messages.
C10_Witness ==
    /\ sendEndAt # -1
    /\ Len(sent) = MaxFrames
    /\ Len(rcvd) = MaxMsgs

(* ------------------------ _prepare_audio_frames ------------------------ *)

\* The samples of a frame list, end to end.
FrameSamples(fr) == Flatten([k \in 1..Len(fr) |-> fr[k].data])

\* C11: a signal of n >= 1 samples gives ceil(n / frame_size) frames of
\* exactly frame_size samples each, numbered in increasing order, and input
\* sample j is the sample at place j of the frames laid end to end, so every
\* input sample is covered exactly once; the call leaves its input as it was.
C11_FramesCoverSignal ==
    fpc = "returned" =>
        /\ Len(fout) = (Len(fin) + ChunkSize - 1) \div ChunkSize
        /\ \A k \in 1..Len(fout) :
              /\ Len(fout[k].data) = ChunkSize
              /\ fout[k].index = k
        /\ SubSeq(FrameSamples(fout), 1, Len(fin)) = fin
        /\ Len(FrameSamples(fout)) - Len(fin) < ChunkSize

\* A signal that needed padding was cut into several frames.
C11_Witness ==
    /\ fpc = "returned"
    /\ Len(fin) % ChunkSize # 0
    /\ Len(fout) >= 2
    /\ \E j \in 1..Len(fin) : fin[j] # 0

\* C12: the framed length is a multiple of frame_size, the first frame is
\* marked FIRST, the last frame LAST (also when padding was needed) and every
\* other frame MIDDLE.
C12_FirstLastMiddle ==
    fpc = "returned" =>
        /\ Len(FrameSamples(fout)) % ChunkSize = 0
        /\ fout[1].status = StatusFirst
        /\ fout[Len(fout)].status = StatusLast
        /\ \A k \in 2..(Len(fout) - 1) : fout[k].status = StatusMiddle

\* C13: a signal of exactly one frame's length gives exactly one frame, and
\* that frame carries the LAST mark that tells the server the input ended.
C13_SingleFrameIsLast ==
    (fpc = "returned" /\ Len(fin) = ChunkSize) =>
        /\ Len(fout) = 1
        /\ fout[1].status = StatusLast

\* C14: on the wire data.status is 0 for the first frame, 1 for every middle
\* frame and 2 for the last frame (either 0 or 2 for a frame that is both).
C14_WireStatus ==
    \A k \in 1..Len(sent) :
        LET first == k = 1
            last == k = Len(frames)
        IN  /\ (first /\ ~last) => sent[k].status = 0
            /\ (last /\ ~first) => sent[k].status = 2
            /\ (first /\ last) => sent[k].status \in {0, 2}
            /\ (~first /\ ~last) => sent[k].status = 1

(* ------------------- speech_to_text before the network ----------------- *)

\* The results that report a failure of normalisation, of the duration
\* tests or of the signal-quality tests.
QualityErrors == {"all_zero", "too_weak", "weak_or_noise"}
ValidationFailures ==
    {"no_audio", "empty_audio", "audio_too_short", "audio_too_long"}
        \cup QualityErrors

\* C15: when speech_to_text ends with a normalisation, duration or
\* signal-quality failure, no endpoint URL was signed, no connection was
\* attempted or opened and no frame was sent in that call.
C15_FailsBeforeNetwork ==
    (pc = "done" /\ ret.kind \in ValidationFailures) =>
        /\ urlCount = 0
        /\ connects = 0
        /\ conn = "none"
        /\ openedAt = -1
        /\ recv = "none"
        /\ sent = <<>>

\* The last of the tests, the one for the longest audio, has failed.
C15_Witness ==
    /\ pc = "done"
    /\ ret.kind = "audio_too_long"
    /\ urlCount = 0

\* C16: a signal of fewer samples than 0.5 s holds (and not silent) ends
\* with the too-short error and never reaches signing and framing, whatever
\* padding adds.
C16_ShortSignalRejected ==
    LET data == FromBuffer(audio)
    IN  (/\ pc \in {"sign", "frame", "done"}
         /\ Len(data) >= 1
         /\ Len(data) < MinSamples
         /\ ~AllZero(data)) =>
            /\ pc = "done"
            /\ ret.kind = "audio_too_short"

\* C17: a buffer of all-zero samples ends with a signal-quality error, and
\* no signal, no frame list and no frame on the wire comes of it.
C17_SilentBufferRejected ==
    LET data == FromBuffer(audio)
    IN  (/\ pc \notin {"caller", "rejected_size", "rejected_empty",
                        "start", "process"}
         /\ Len(data) >= 1
         /\ AllZero(data)) =>
            /\ pc = "done"
            /\ ret.kind \in QualityErrors
            /\ audioNp = <<>>
            /\ frames = <<>>
            /\ sent = <<>>
            /\ connects = 0

\* A silent buffer of a length the duration tests accept was turned down.
C17_Witness ==
    /\ pc = "done"
    /\ ret.kind = "all_zero"
    /\ AllZero(FromBuffer(audio))
    /\ Len(FromBuffer(audio)) >= MinSamples
    /\ Len(FromBuffer(audio)) <= MaxSamples

\* C18: a buffer above the maximum size is turned down before normalisation
\* whichever way it came (WebSocket message, upload, direct call), and a
\* buffer of exactly the maximum size is not turned down for its size.
C18_OversizeRejected ==
    /\ Len(audio) > MaxAudioBytes => pc \in {"caller", "rejected_size"}
    /\ Len(audio) = MaxAudioBytes => pc # "rejected_size"

(* --------------------------- connection errors ------------------------- *)

\* C19: when the connection cannot be opened, speech_to_text returns the
\* service-connection failure, no receive task was started, no frame was
\* sent and nothing was received or closed.
C19_ConnectFailureFails ==
    (connects >= 1 /\ openedAt = -1) =>
        /\ pc = "done"
        /\ ret = Ret("service_failed")
        /\ Outcome(ret) = "error"
        /\ recv = "none"
        /\ sent = <<>>
        /\ rcvd = <<>>
        /\ closeCount = 0

\* websockets.connect failed for an accepted signal.
C19_Witness ==
    /\ pc = "done"
    /\ connects = 1
    /\ openedAt = -1
    /\ urlCount = 1
    /\ frames # <<>>

\* C20: in one recognition attempt websockets.connect is called at most
\* once, whatever fails, and no frame is put on the wire twice.
C20_NoRetry ==
    /\ connects <= 1
    /\ \A i, j \in 1..Len(sent) : i # j => sent[i].index # sent[j].index
    /\ pc = "done" => connects = 1

\* The attempt failed on a broken connection after a frame had been sent.
C20_Witness ==
    /\ pc = "done"
    /\ ret = Ret("service_failed")
    /\ Len(sent) >= 1
    /\ Len(sent) < Len(frames)
    /\ connects = 1

(* ----------------------- the states of a session ----------------------- *)

\* A message whose status says "final": code 0 and data.status 2.
IsFinal(m) == m.json /\ m.code = 0 /\ m.hasData /\ m.status = 2

FinalReceived == \E k \in 1..Len(rcvd) : IsFinal(rcvd[k])

\* C21: the wait for the final result (AWAITING_FINAL) begins only when the
\* sender has transmitted the last frame; the wait ends as completed
\* (COMPLETE) only when a final-status message was received; and while the
\* session waits, with no final message and the deadline not reached, the
\* receive task is still receiving.
C21_AwaitThenComplete ==
    /\ pc = "wait" => Len(sent) = Len(frames)
    /\ exitKind = "normal" => FinalReceived
    /\ (/\ pc = "wait"
        /\ ~FinalReceived
        /\ now < Deadline(openedAt, sendEndAt)) => recv = "waiting"

\* C22: the transcript buffer changes only in a step of the receive task
\* that handles a message, by one appended text, while the sender and the
\* owning call stand still; and from the moment the owner has left the wait
\* as completed, to join the buffer, the buffer no longer changes.
C22_SingleWriter ==
    [][/\ result' # result =>
            /\ recv = "waiting"
            /\ Len(rcvd') = Len(rcvd) + 1
            /\ UNCHANGED mainVars
            /\ Len(result') = Len(result) + 1
            /\ SubSeq(result', 1, Len(result)) = result
       /\ (pc \in {"closing", "done"} /\ exitKind = "normal") =>
            result' = result]_vars

\* The receive task has appended a text while the sender was between two
\* frames.
C22_Witness ==
    /\ pc = "sleep"
    /\ Len(sent) < Len(frames)
    /\ Len(result) >= 1

(* ------------------------- concurrent attempts ------------------------- *)

\* The texts the messages of one connection carry, in order.
RECURSIVE TextsOf(_)
TextsOf(msgs) ==
    IF msgs = <<>> THEN <<>>
    ELSE LET t == SegmentText(msgs[1])
         IN  (IF t = <<>> THEN <<>> ELSE <<t>>) \o TextsOf(Tail(msgs))

\* C23: of two attempts on one processor each has its own buffer and
\* completion signal: the buffer of an attempt holds the texts of the
\* messages of its own connection, its signal is set by these messages
\* only, and what it returns is the timeout text or the text joined from
\* its own messages.
C23_AttemptsIndependent ==
    \A i \in Attempts :
        /\ aResult[i] = TextsOf(aRcvd[i])
        /\ aComplete[i] <=>
              \E k \in 1..Len(aRcvd[i]) :
                  aRcvd[i][k].code # 0 \/ IsFinal(aRcvd[i][k])
        /\ aPc[i] = "done" =>
              aRet[i] \in {Ret("timeout"), FinalResult(TextsOf(aRcvd[i]))}

\* One attempt returned a transcript while the other, its connection open,
\* had received something else.
C23_Witness ==
    /\ aPc[1] = "done"
    /\ aRet[1].kind = "transcript"
    /\ aPc[2] = "open"
    /\ aRcvd[2] # <<>>
    /\ aRcvd[2] # aRcvd[1]

(* ------------------------------ the signer ----------------------------- *)

\* C24: two runs of the signer whose clock readings lie one second or more
\* apart give different date values and different signatures.
C24_FreshSignature ==
    \A i, j \in Attempts :
        (/\ sPc[i] # "idle"
         /\ sPc[j] # "idle"
         /\ sReadAt[j] - sReadAt[i] >= TicksPerSecond) =>
            /\ sUrl[i].date # sUrl[j].date
            /\ sUrl[i].authorization # sUrl[j].authorization

\* The two readings lie exactly one second apart, neither on a full second.
C24_Witness ==
    /\ sPc[1] # "idle"
    /\ sPc[2] # "idle"
    /\ sReadAt[1] % TicksPerSecond # 0
    /\ sReadAt[2] = sReadAt[1] + TicksPerSecond

\* C28: an attempt that connects has signed one URL, carrying the date of
\* the clock reading of its own _create_url call, and has used it for its
\* one connection; a later attempt, a second or more after, connects with
\* another URL.
C28_OwnUrlOnce ==
    /\ \A i \in Attempts :
          sPc[i] = "connected" =>
              /\ sUrlCount[i] = 1
              /\ Len(sConnUrl[i]) = 1
              /\ sConnUrl[i][1].date = FormatDate(EpochSeconds(sReadAt[i]))
              /\ sConnUrl[i][1] = sUrl[i]
    /\ \A i, j \in Attempts :
          (/\ sPc[i] = "connected"
           /\ sPc[j] = "connected"
           /\ sReadAt[j] - sReadAt[i] >= TicksPerSecond) =>
              sConnUrl[i] # sConnUrl[j]

\* The second attempt connected some seconds after the first had.
C28_Witness ==
    /\ sPc[1] = "connected"
    /\ sPc[2] = "connected"
    /\ sReadAt[2] - sReadAt[1] >= 2 * TicksPerSecond

(* -------------------------- what the caller sees ----------------------- *)

\* A message without the server's description.
Blind(m) == [m EXCEPT !.desc = ""]

\* C25: what speech_to_text returns is fixed by how the call ended and by
\* the messages received with their descriptions blanked out, so two runs
\* that differ in a description only return the same; the returned text
\* holds no description; and every call that ends returns a text, no
\* exception reaches the caller.
C25_DescNotSurfaced ==
    pc = "done" =>
        /\ ret.kind # "none"
        /\ conn # "none" =>
              ret \in {Ret("timeout"), Ret("service_failed"),
                       FinalResult(TextsOf([k \in 1..Len(rcvd) |->
                                               Blind(rcvd[k])]))}
        /\ \A k \in 1..Len(ret.text) :
              \A j \in 1..Len(rcvd) : ret.text[k] # rcvd[j].desc

\* A transcript was returned although the server had reported an error
\* with a description.
C25_Witness ==
    /\ pc = "done"
    /\ ret.kind = "transcript"
    /\ \E j \in 1..Len(rcvd) : rcvd[j].desc # ""

(* ------------------------------ the agent ------------------------------ *)

\* C26: when the executor has answered with an output, process_text returns
\* that output, the last-interaction time was updated once, the history has
\* grown by the user entry and then the assistant entry, and the memory
\* store by one conversation memory with the user text and the response
\* (in a call where neither the state update nor the memory save raised).
C26_SuccessRecorded ==
    (/\ gPc = "done"
     /\ gResp.kind = "dict"
     /\ gResp.output # ""
     /\ ~gStateErr
     /\ gSave = "returned") =>
        /\ gRet = [sorry |-> FALSE, text |-> gResp.output]
        /\ gLast = gLast0 + 1
        /\ gHistory = gHistory0 \o
              <<[role |-> "user", content |-> gText],
                [role |-> "assistant", content |-> gResp.output]>>
        /\ gMem = gMem0 \o
              <<[type |-> "conversation", content |-> gText,
                 response |-> gResp.output]>>

\* C27: when the executor has raised, process_text returns a reply of
\* apology, and history, last-interaction time and memory store are what
\* they were when the call began.
C27_ErrorLeavesState ==
    (gPc = "done" /\ gResp = NoResponse) =>
        /\ gRet.sorry
        /\ gHistory = gHistory0
        /\ gLast = gLast0
        /\ gMem = gMem0

\* The executor raised in a call that found a history and a memory.
C27_Witness ==
    /\ gPc = "done"
    /\ gResp = NoResponse
    /\ gRet = Sorry("problem")
    /\ gHistory # <<>>
    /\ gMem # <<>>

\* C29: whenever samples are added to bring a signal to a multiple of the frame
\* size, every added sample is a copy of the last sample of the signal; here for
\* the samples _prepare_audio_frames adds.
C29_PaddingRepeatsLast ==
    fpc = "returned" =>
        \A j \in (Len(fin) + 1)..Len(FrameSamples(fout)) :
            FrameSamples(fout)[j] = fin[Len(fin)]
C31_OddByteDropped ==
    /\ (pc = "done" /\ Len(audio) = 1) => ret.kind = "empty_audio"
    /\ (pc = "done" /\ ret.kind = "empty_audio") => Len(audio) \div 2 = 0
    /\ pc = "check" =>
          Len(audioNp) =
              (((Len(audio) \div 2) + ChunkSize - 1) \div ChunkSize) * ChunkSize

\* A buffer with a stray last byte, whose samples do not fill the last
\* frame, was decoded.
C31_Witness ==
    /\ pc = "check"
    /\ Len(audio) % 2 = 1
    /\ (Len(audio) \div 2) % ChunkSize # 0
\* C32: when the executor has answered with an output, process_text returns
\* that output whether or not the state update or the memory save raised;
\* after a state update that raised the memory save was still called, and
\* where it returned with metadata it can encode the memory has its row.
C32_FailuresDoNotAffectReply ==
    (gPc = "done" /\ gResp.kind = "dict" /\ gResp.output # "") =>
        /\ gRet = [sorry |-> FALSE, text |-> gResp.output]
        /\ gSave # "none"
        /\ (gSave = "returned" /\ ~gResp.steps) =>
              gMem = gMem0 \o
                  <<[type |-> "conversation", content |-> gText,
                     response |-> gResp.output]>>

\* The state update raised after the user entry was added, the memory save
\* raised too, and the output was returned.
C32_Witness ==
    /\ gPc = "done"
    /\ gStateErr
    /\ gSave = "raised"
    /\ Len(gHistory) = Len(gHistory0) + 1
    /\ gRet = [sorry |-> FALSE, text |-> gResp.output]
    /\ gResp.output # ""
(* ------------------------ after the final message ---------------------- *)

\* The place of the first final message among those received.
FirstFinal == CHOOSE k \in 1..Len(rcvd) :
                  /\ IsFinal(rcvd[k])
                  /\ \A j \in 1..(k - 1) : ~IsFinal(rcvd[j])

\* C33: once a final message (data.status 2) was handled, no later message
\* changes the transcript: the buffer holds the texts up to and including the
\* first final message, and a call that ends normally returns the text
\* joined from these.
C33_FinalFreezesTranscript ==
    FinalReceived =>
        /\ result = TextsOf(SubSeq(rcvd, 1, FirstFinal))
        /\ (pc = "done" /\ exitKind = "normal") =>
              ret = FinalResult(TextsOf(SubSeq(rcvd, 1, FirstFinal)))
(* ------------------------- messages out of form ------------------------ *)

\* A message that is a JSON object without a "code" field.
NoCode(m) == m.json /\ m.code = -1

\* C34: a message without a code field is handled as a protocol error: it is
\* the last message the receiver handles, the completion signal is set, the
\* receiver has stopped, and the buffer holds the texts of the messages
\* before it and nothing of the message itself.
C34_NoCodeIsError ==
    \A k \in 1..Len(rcvd) :
        NoCode(rcvd[k]) =>
            /\ k = Len(rcvd)
            /\ complete
            /\ recv = "done"
            /\ result = TextsOf(SubSeq(rcvd, 1, k - 1))

\* A message without a code that carries a text and the final status came
\* after a message whose text was kept; the call returned.
C34_Witness ==
    /\ pc = "done"
    /\ Len(rcvd) = 2
    /\ NoCode(rcvd[2])
    /\ rcvd[2].hasData
    /\ rcvd[2].status = 2
    /\ Len(result) = 1
\* A message the receiver cannot handle: text that is no JSON, or a message
\* whose handling raises.
Discarded(m) == ~m.json \/ (m.code = 0 /\ m.hasData /\ ~m.dict)

\* C35: a message that is no valid JSON, or whose handling raises, is
\* discarded: the step that handles it changes neither the buffer nor the
\* completion signal, and the receiver stays in its loop.
C35_BadMessageDiscarded ==
    [][(Len(rcvd') = Len(rcvd) + 1 /\ Discarded(rcvd'[Len(rcvd')])) =>
            /\ result' = result
            /\ complete' = complete
            /\ recv' = "waiting"]_vars

\* After a message whose handling raised, the receiver handled the final
\* message and kept its text, and the call returned.
C35_Witness ==
    /\ pc = "done"
    /\ exitKind = "normal"
    /\ Len(rcvd) = 2
    /\ rcvd[1].json
    /\ Discarded(rcvd[1])
    /\ IsFinal(rcvd[2])
    /\ Len(result) = 1
(* --------------------------- the text returned ------------------------- *)

\* C36: a call that ends normally returns the accumulated text only when it
\* has two characters or more; with an empty text or one character it
\* returns one of the two fallback texts; and no call returns a transcript
\* of fewer than two characters.
C36_NoShortTranscript ==
    pc = "done" =>
        /\ ret.kind = "transcript" => Len(ret.text) >= 2
        /\ (exitKind = "normal" /\ conn # "none") =>
              IF Len(Flatten(result)) >= 2
              THEN ret = [kind |-> "transcript", text |-> Flatten(result)]
              ELSE IF Len(Flatten(result)) = 1 THEN ret = Ret("too_short")
              ELSE ret = Ret("no_text")

\* The session completed on a final message with one character received.
C36_Witness ==
    /\ pc = "done"
    /\ exitKind = "normal"
    /\ FinalReceived
    /\ Len(Flatten(result)) = 1
    /\ ret = Ret("too_short")
(* ----------------------------- the history ----------------------------- *)

Min(a, b) == IF a <= b THEN a ELSE b

\* C40: for every history and every limit >= 0, get_recent_history(limit)
\* returns at most limit entries: the min(limit, length) entries added last,
\* in the order they were added.
C40_RecentHistory ==
    [][gPc' = gPc =>
          /\ Len(gRecent') <= gLimit'
          /\ gRecent' = SubSeq(gHistory,
                               Len(gHistory) - Min(gLimit', Len(gHistory)) + 1,
                               Len(gHistory))]_vars
(* ------------------------ the connection manager ----------------------- *)

\* C37: after any calls of connect, disconnect, update_activity and
\* cleanup_inactive_connections the keys of connection_info are the active
\* connections, and disconnect of a websocket that is not active changes
\* neither collection.
C37_InfoMatchesActive ==
    /\ Keys(mInfo) = mActive
    /\ \A w \in Sockets \ mActive :
          /\ Disconnect(Manager, w).active = mActive
          /\ Disconnect(Manager, w).info = mInfo

\* The cleanup stands at the close of a websocket that was disconnected
\* after the set was copied, while another websocket is active.
C37_Witness ==
    /\ kPc = "closing"
    /\ Head(kTodo) \notin mActive
    /\ mActive # {}
\* An id connect has generated.
Generated(id) == id # <<>> /\ id[1] = "client_"

\* C38: when connect gives a websocket a generated id, no other connection
\* active at that time has the same id.
C38_GeneratedIdUnique ==
    [][\A w \in Sockets :
          (/\ mInfo'[w].client_id # mInfo[w].client_id
           /\ Generated(mInfo'[w].client_id)) =>
              \A v \in mActive' \ {w} :
                  mInfo'[v].client_id # mInfo'[w].client_id]_vars
\* C39: broadcast completes without error, and when it has completed it has
\* tried every connection that was active when it began: each of them was
\* sent the message or, its send having failed, visited and removed.
C39_BroadcastReachesAll ==
    /\ bPc # "raised"
    /\ bPc = "done" => bStart \subseteq bSeen
====
